---------------------------- MODULE Spec2Model ----------------------------
(***************************************************************************)
(* A model of the jointcal least-squares fitter (FitterBase::minimize and  *)
(* FitterBase::findOutliers, src/src/FitterBase.cc) and of the x-sliced    *)
(* star finder (FastFinder, src/src/FastFinder.cc).                        *)
(*                                                                         *)
(* Spec     : one minimize call on an Associations bundle.                 *)
(* SpecLive : Spec, with the call and every pass of its loop taken.        *)
(* SpecFF   : construction of a FastFinder and one query on it             *)
(*            (FindClosest, SecondClosest or a begin_scan iteration).      *)
(* SpecSave : one saveChi2Contributions call.                              *)
(*                                                                         *)
(* Numbers: chi2 values and coordinates are integers, and every comparison *)
(* the code makes on doubles (chi2 < cut, x < xend, dist2 < minDist2, the  *)
(* int(...) truncations) is evaluated exactly on rationals by cross        *)
(* multiplication.                                                         *)
(***************************************************************************)
EXTENDS Integers, Sequences, FiniteSets, TLC

VARIABLES
    \* ---- Associations (FittedStar / MeasuredStar fields)
    valid,              \* MeasuredStar::isValid, per measured star
    measurementCount,   \* FittedStar::getMeasurementCount, per fitted star
    refStar,            \* FittedStar::getRefStar() != nullptr, per fitted star
    \* ---- what the concrete model answers
    measIndices,        \* getIndicesOfMeasuredStar, per measured star
    chi2,               \* chi2 contributions at the current parameters
    \* ---- FitterBase::minimize
    pc,                 \* "idle" | "loop" | "returned"
    nSigmaCut, doRankUpdate,
    returnCode,         \* "Converged" | "Chi2Increased" | "Failed"
    oldChi2, curChi2,
    totalMeasOutliers, totalRefOutliers,
    \* ---- results of the last findOutliers call
    msOutliers, fsOutliers, affectedParams, scanned,
    \* ---- observations of the run
    nOffsets,           \* offsetParams calls made by this minimize
    factorFailed,       \* a Hessian factorisation reported failure
    downdateFailed,     \* chol.update reported failure
    \* ---- FastFinder
    ffpc,               \* "new" | "built" | "queried" | "queried2" | "scanned"
    starList, NXslice,  \* the constructor's arguments
    ff,                 \* the FastFinder object
    query, found,       \* a query and what it returned
    closest,            \* SecondClosest's Closest argument
    yielded,            \* the stars an iteration of begin_scan went through
    \* ---- FitterBase::saveChi2Contributions
    savepc,             \* "none" | "call" | "saved"
    baseName,           \* the argument, a sequence of characters
    measTuple, refTuple \* the names handed to the two writers

fitVars == <<valid, measurementCount, refStar, measIndices, chi2, pc, nSigmaCut,
             doRankUpdate, returnCode, oldChi2, curChi2, totalMeasOutliers,
             totalRefOutliers, msOutliers, fsOutliers, affectedParams, scanned,
             nOffsets, factorFailed, downdateFailed>>
ffVars == <<ffpc, starList, NXslice, ff, query, found, closest, yielded>>
saveVars == <<savepc, baseName, measTuple, refTuple>>
vars == <<fitVars, ffVars, saveVars>>

-----------------------------------------------------------------------------
(* Bounds *)

NM == 2          \* measured stars
NF == 2          \* fitted stars
NPar == 2        \* _nParTot
MaxChi2 == 1     \* chi2 contributions are 0..MaxChi2

MS == 1..NM
FS == 1..NF
Params == 0..(NPar - 1)
NSigmaCuts == {-1, 0, 1}

\* MeasuredStar::getFittedStar: the measured stars are dealt to the fitted
\* stars in turn.
FittedStarOf(m) == ((m - 1) % NF) + 1

\* FittedStar::getIndexInMatrix
IndexInMatrix(f) == (f - 1) % NPar

\* A Chi2Star's star is a MeasuredStar (measurement term) or a FittedStar
\* (reference term).
Meas(m) == <<"m", m>>
Ref(f) == <<"r", f>>
IsMeas(c) == c[1] = "m"
Contribs == {Meas(m) : m \in MS} \cup {Ref(f) : f \in FS}

-----------------------------------------------------------------------------
(* Chi2List *)

\* accumulateStatImageList + accumulateStatRefStars into a Chi2List: one
\* entry per valid MeasuredStar, then one per FittedStar with a RefStar.
ActiveContribs(v, r) ==
    {Meas(m) : m \in {x \in MS : v[x]}} \cup {Ref(f) : f \in {x \in FS : r[x]}}

RECURSIVE SumOver(_, _)
SumOver(S, g) ==
    IF S = {} THEN 0
    ELSE LET x == CHOOSE y \in S : TRUE IN g[x] + SumOver(S \ {x}, g)

\* computeChi2().chi2 : the sum of the contributions.
computeChi2(act, c) == SumOver(act, c)

SumSq(act, c) == SumOver(act, [x \in act |-> c[x] * c[x]])

\* Chi2List::computeAverageAndSigma: the unweighted mean and the sample
\* standard deviation of the n values, kept as exact fractions:
\* average = sum / n, sigma^2 = varNum / varDen with varNum = n*Q - sum^2
\* (Q the sum of squares) and varDen = n*(n-1). For n = 1 sigma is 0/0.
computeAverageAndSigma(act, c) ==
    LET n == Cardinality(act)
        S == SumOver(act, c)
    IN  [n |-> n, sum |-> S, varNum |-> n * SumSq(act, c) - S * S,
         varDen |-> n * (n - 1)]

\* chi2 < cut with cut = average + nSigmaCut * sigma. With D = n*x - sum the
\* test reads D < nSigmaCut * n * sqrt(varNum/varDen), decided on the
\* squares; no comparison with a cut that is not a number is true.
BelowCut(x, st, ns) ==
    LET D == st.n * x - st.sum
        lhs == D * D * st.varDen
        rhs == ns * ns * st.n * st.n * st.varNum
    IN  IF st.varDen = 0 THEN FALSE
        ELSE IF ns >= 0 THEN D < 0 \/ lhs < rhs
        ELSE D < 0 /\ lhs > rhs

\* The orders sort(chi2List.begin(), chi2List.end()) can leave the list in,
\* read from rbegin(): descending chi2; std::sort is not stable, so equal
\* chi2 values come in any order.
RECURSIVE SortedOrders(_, _)
SortedOrders(act, c) ==
    IF act = {} THEN {<<>>}
    ELSE UNION {{<<x>> \o rest : rest \in SortedOrders(act \ {x}, c)} :
                    x \in {y \in act : \A z \in act : c[y] >= c[z]}}

-----------------------------------------------------------------------------
(* FitterBase::findOutliers *)

\* The two protective early exits of the scan ("continue"): a reference term
\* whose FittedStar has no measurement left, a measurement term whose
\* FittedStar has this one measurement only and no RefStar.
SkipItMeasOnly(x, mc, r) ==
    IF IsMeas(x)
    THEN mc[FittedStarOf(x[2])] = 1 /\ ~r[FittedStarOf(x[2])]
    ELSE FALSE

SkipIt(x, mc, r) ==
    IF IsMeas(x)
    THEN mc[FittedStarOf(x[2])] = 1 /\ ~r[FittedStarOf(x[2])]
    ELSE mc[x[2]] = 0

\* The parameter indices a chi2 term depends on.
IndicesOf(x, idx) ==
    IF IsMeas(x) THEN idx[x[2]] ELSE {IndexInMatrix(x[2])}

\* drop_it: no index of this term was touched by a stronger outlier.
DropItIfAnyFree(indices, aff) == \E i \in indices : aff[i] = 0

DropIt(indices, aff) == \A i \in indices : aff[i] = 0

\* Store the outlier in its list and mark its parameters.
Record(acc, x, indices) ==
    [acc EXCEPT !.ms = IF IsMeas(x) THEN Append(@, x[2]) ELSE @,
                !.fs = IF IsMeas(x) THEN @ ELSE Append(@, x[2]),
                !.aff = [i \in Params |-> IF i \in indices THEN @[i] + 1 ELSE @[i]],
                !.n = @ + 1]

\* The loop over the sorted list, strongest first, from position k on.
\* env = [act, c, st, ns, mc, r, idx]: the Chi2List (its entries, values and
\* statistics), nSigmaCut, and the Associations fields and model indices the
\* loop reads.
RECURSIVE ScanFrom(_, _, _, _)
ScanFrom(order, k, acc, env) ==
    IF k > Len(order) THEN acc
    ELSE LET x == order[k] IN
         IF BelowCut(env.c[x], env.st, env.ns) THEN acc
         ELSE LET seen == [acc EXCEPT !.scanned = @ \cup {x}] IN
              IF SkipIt(x, env.mc, env.r) THEN ScanFrom(order, k + 1, seen, env)
              ELSE IF DropIt(IndicesOf(x, env.idx), acc.aff)
                   THEN ScanFrom(order, k + 1,
                                 Record(seen, x, IndicesOf(x, env.idx)), env)
                   ELSE ScanFrom(order, k + 1, seen, env)

\* findOutliers(nSigmaCut, msOutliers, fsOutliers) on the list sorted as
\* `order`: [ms, fs, aff, n, scanned], n the value returned; scanned is the
\* set of entries the loop looked at before its break.
findOutliers(order, env) ==
    LET start == [ms |-> <<>>, fs |-> <<>>, aff |-> [i \in Params |-> 0],
                  n |-> 0, scanned |-> {}]
    IN  IF env.act = {} THEN start ELSE ScanFrom(order, 1, start, env)

-----------------------------------------------------------------------------
(* removeMeasOutliers / removeRefOutliers *)

Range(s) == {s[i] : i \in DOMAIN s}

removeMeasValidForgotten(outliers, v) == v

\* setValid(false) on every listed measured star.
removeMeasValid(outliers, v) ==
    [m \in MS |-> IF m \in Range(outliers) THEN FALSE ELSE v[m]]

\* getMeasurementCount()-- once per list entry.
removeMeasCountForgotten(outliers, mc) == mc

removeMeasCount(outliers, mc) ==
    [f \in FS |->
        mc[f] - Cardinality({i \in DOMAIN outliers : FittedStarOf(outliers[i]) = f})]

\* setRefStar(nullptr) on every listed fitted star.
removeRefOutliers(outliers, r) ==
    [f \in FS |-> IF f \in Range(outliers) THEN FALSE ELSE r[f]]

-----------------------------------------------------------------------------
(* FitterBase::minimize *)

\* The chi2 contributions the model can report at some parameters: a value
\* for each entry the accumulators visit.
ChiVectors(act) ==
    {c \in [Contribs -> 0..MaxChi2] : \A x \in Contribs \ act : c[x] = 0}

NoChi2 == [x \in Contribs |-> 0]

\* currentChi2.chi2 > oldChi2 && totalMeasOutliers + totalRefOutliers != 0
Chi2WentWhenever(cur, old, totM, totR) == cur > old

Chi2Went(cur, old, totM, totR) == cur > old /\ totM + totR # 0

\* if (nSigmaCut == 0) break;
NoRejectionBelowZero(ns) == ns < 0

NoRejection(ns) == ns = 0

Active == ActiveContribs(valid, refStar)

Env(c) == [act |-> Active, c |-> c, st |-> computeAverageAndSigma(Active, c), ns |-> nSigmaCut,
           mc |-> measurementCount, r |-> refStar, idx |-> measIndices]

\* minimize up to the loop: assignIndices, the derivatives, the Hessian and
\* its factorisation, which fails or succeeds; then oldChi2 = computeChi2().
MinimizeFactorFails(ns, ru) ==
    /\ pc = "idle"
    /\ nSigmaCut' = ns /\ doRankUpdate' = ru
    /\ factorFailed' = TRUE
    /\ returnCode' = "Failed"
    /\ pc' = "returned"
    /\ UNCHANGED <<valid, measurementCount, refStar, measIndices, chi2, oldChi2,
                   curChi2, totalMeasOutliers, totalRefOutliers, msOutliers,
                   fsOutliers, affectedParams, scanned, nOffsets, downdateFailed>>

MinimizeEntersLoop(ns, ru) ==
    /\ pc = "idle"
    /\ nSigmaCut' = ns /\ doRankUpdate' = ru
    /\ returnCode' = "Converged"
    /\ totalMeasOutliers' = 0 /\ totalRefOutliers' = 0
    /\ \E c \in ChiVectors(Active) : oldChi2' = computeChi2(Active, c)
    /\ pc' = "loop"
    /\ UNCHANGED <<valid, measurementCount, refStar, measIndices, chi2, curChi2,
                   msOutliers, fsOutliers, affectedParams, scanned, nOffsets,
                   factorFailed, downdateFailed>>

\* The head of every pass: delta = chol.solve(grad); offsetParams(delta);
\* currentChi2 = computeChi2(), c being the contributions at the new
\* parameters and cur their sum.
SolveAndOffset(c, cur) ==
    /\ nOffsets' = nOffsets + 1
    /\ chi2' = c
    /\ curChi2' = cur

\* chi2 went up after an outlier was removed: break with Chi2Increased.
PassChi2Increased ==
    /\ pc = "loop"
    /\ \E c \in ChiVectors(Active) : \E cur \in {computeChi2(Active, c)} :
        /\ Chi2Went(cur, oldChi2, totalMeasOutliers, totalRefOutliers)
        /\ SolveAndOffset(c, cur)
        /\ returnCode' = "Chi2Increased"
        /\ pc' = "returned"
        /\ UNCHANGED <<valid, measurementCount, refStar, measIndices, nSigmaCut,
                       doRankUpdate, oldChi2, totalMeasOutliers, totalRefOutliers,
                       msOutliers, fsOutliers, affectedParams, scanned,
                       factorFailed, downdateFailed>>

\* nSigmaCut == 0: break before any rejection.
PassNoRejection ==
    /\ pc = "loop"
    /\ NoRejection(nSigmaCut)
    /\ \E c \in ChiVectors(Active) : \E cur \in {computeChi2(Active, c)} :
        /\ ~Chi2Went(cur, oldChi2, totalMeasOutliers, totalRefOutliers)
        /\ SolveAndOffset(c, cur)
        /\ oldChi2' = cur
        /\ pc' = "returned"
        /\ UNCHANGED <<valid, measurementCount, refStar, measIndices, nSigmaCut,
                       doRankUpdate, returnCode, totalMeasOutliers, totalRefOutliers,
                       msOutliers, fsOutliers, affectedParams, scanned,
                       factorFailed, downdateFailed>>

\* What findOutliers can return in a pass that reaches it with the
\* contributions c: one result per order the sort can produce.
Found(c) == {findOutliers(order, Env(c)) : order \in SortedOrders(Active, c)}

\* The part of a pass from findOutliers to the totals, res being what
\* findOutliers found.
Rejection(c, cur, res) ==
    /\ SolveAndOffset(c, cur)
    /\ oldChi2' = cur
    /\ msOutliers' = res.ms /\ fsOutliers' = res.fs
    /\ affectedParams' = res.aff /\ scanned' = res.scanned
    /\ totalMeasOutliers' = totalMeasOutliers + Len(res.ms)
    /\ totalRefOutliers' = totalRefOutliers + Len(res.fs)
    /\ UNCHANGED <<measIndices, nSigmaCut, doRankUpdate>>

\* removeMeasOutliers(msOutliers); removeRefOutliers(fsOutliers);
Remove(res) ==
    /\ valid' = removeMeasValid(res.ms, valid)
    /\ measurementCount' = removeMeasCount(res.ms, measurementCount)
    /\ refStar' = removeRefOutliers(res.fs, refStar)

\* findOutliers returned 0: break.
PassNoOutliers ==
    /\ pc = "loop"
    /\ ~NoRejection(nSigmaCut)
    /\ \E c \in ChiVectors(Active) : \E cur \in {computeChi2(Active, c)} :
        /\ ~Chi2Went(cur, oldChi2, totalMeasOutliers, totalRefOutliers)
        /\ \E res \in Found(c) :
            /\ res.n = 0
            /\ Rejection(c, cur, res)
            /\ pc' = "returned"
            /\ UNCHANGED <<valid, measurementCount, refStar, returnCode,
                           factorFailed, downdateFailed>>

\* doRankUpdate: the outliers are removed and the factorisation is
\* downdated; update_status is logged and nothing else reads it.
PassRankUpdate ==
    /\ pc = "loop"
    /\ ~NoRejection(nSigmaCut)
    /\ doRankUpdate
    /\ \E c \in ChiVectors(Active) : \E cur \in {computeChi2(Active, c)} :
        /\ ~Chi2Went(cur, oldChi2, totalMeasOutliers, totalRefOutliers)
        /\ \E res \in Found(c) : \E updateFails \in BOOLEAN :
            /\ res.n # 0
            /\ Rejection(c, cur, res)
            /\ Remove(res)
            /\ downdateFailed' = (downdateFailed \/ updateFails)
            /\ pc' = "loop"
            /\ UNCHANGED <<returnCode, factorFailed>>

\* The rebuild path: new triplets, Hessian, chol.compute, which succeeds.
PassRebuild ==
    /\ pc = "loop"
    /\ ~NoRejection(nSigmaCut)
    /\ ~doRankUpdate
    /\ \E c \in ChiVectors(Active) : \E cur \in {computeChi2(Active, c)} :
        /\ ~Chi2Went(cur, oldChi2, totalMeasOutliers, totalRefOutliers)
        /\ \E res \in Found(c) :
            /\ res.n # 0
            /\ Rejection(c, cur, res)
            /\ Remove(res)
            /\ pc' = "loop"
            /\ UNCHANGED <<returnCode, factorFailed, downdateFailed>>

\* The rebuild path when chol.compute fails: return Failed.
PassRebuildFailsUnnoticed ==
    /\ pc = "loop"
    /\ ~NoRejection(nSigmaCut)
    /\ ~doRankUpdate
    /\ \E c \in ChiVectors(Active) : \E cur \in {computeChi2(Active, c)} :
        /\ ~Chi2Went(cur, oldChi2, totalMeasOutliers, totalRefOutliers)
        /\ \E res \in Found(c) :
            /\ res.n # 0
            /\ Rejection(c, cur, res)
            /\ Remove(res)
            /\ factorFailed' = TRUE
            /\ pc' = "loop"
            /\ UNCHANGED <<returnCode, downdateFailed>>

PassRebuildFails ==
    /\ pc = "loop"
    /\ ~NoRejection(nSigmaCut)
    /\ ~doRankUpdate
    /\ \E c \in ChiVectors(Active) : \E cur \in {computeChi2(Active, c)} :
        /\ ~Chi2Went(cur, oldChi2, totalMeasOutliers, totalRefOutliers)
        /\ \E res \in Found(c) :
            /\ res.n # 0
            /\ Rejection(c, cur, res)
            /\ Remove(res)
            /\ factorFailed' = TRUE
            /\ returnCode' = "Failed"
            /\ pc' = "returned"
            /\ UNCHANGED downdateFailed

\* Associations as the fitter finds it: any validity flags and RefStar
\* links, each measurementCount the number of valid children.
ValidChildren(v, f) == {m \in MS : v[m] /\ FittedStarOf(m) = f}

\* No FastFinder in sight.
FFIdle ==
    /\ ffpc = "none" /\ starList = <<>> /\ NXslice = 0
    /\ ff = <<>> /\ query = <<>> /\ found = 0
    /\ closest = 0 /\ yielded = <<>>

\* No saveChi2Contributions call in sight.
SaveIdle ==
    /\ savepc = "none" /\ baseName = <<>>
    /\ measTuple = <<>> /\ refTuple = <<>>

Init ==
    /\ valid \in [MS -> BOOLEAN]
    /\ refStar \in [FS -> BOOLEAN]
    /\ measurementCount = [f \in FS |-> Cardinality(ValidChildren(valid, f))]
    /\ measIndices \in [MS -> SUBSET Params]
    /\ chi2 = NoChi2
    /\ pc = "idle"
    /\ nSigmaCut = 0 /\ doRankUpdate = FALSE
    /\ returnCode = "Converged"
    /\ oldChi2 = 0 /\ curChi2 = 0
    /\ totalMeasOutliers = 0 /\ totalRefOutliers = 0
    /\ msOutliers = <<>> /\ fsOutliers = <<>>
    /\ affectedParams = [i \in Params |-> 0]
    /\ scanned = {}
    /\ nOffsets = 0
    /\ factorFailed = FALSE /\ downdateFailed = FALSE
    /\ FFIdle
    /\ SaveIdle

Next ==
    \/ \E ns \in NSigmaCuts, ru \in BOOLEAN :
          MinimizeFactorFails(ns, ru) /\ UNCHANGED <<ffVars, saveVars>>
    \/ \E ns \in NSigmaCuts, ru \in BOOLEAN :
          MinimizeEntersLoop(ns, ru) /\ UNCHANGED <<ffVars, saveVars>>
    \/ PassChi2Increased /\ UNCHANGED <<ffVars, saveVars>>
    \/ PassNoRejection /\ UNCHANGED <<ffVars, saveVars>>
    \/ PassNoOutliers /\ UNCHANGED <<ffVars, saveVars>>
    \/ PassRankUpdate /\ UNCHANGED <<ffVars, saveVars>>
    \/ PassRebuild /\ UNCHANGED <<ffVars, saveVars>>
    \/ PassRebuildFails /\ UNCHANGED <<ffVars, saveVars>>

Spec == Init /\ [][Next]_vars

\* minimize is straight-line code around one loop: once called it runs, and
\* every pass it can take it takes. A step of Next is a step that enters
\* the loop, makes a pass (one more offsetParams) or returns, and one is
\* possible as long as minimize has not returned: the fairness of the call
\* is stated on those steps.
MinimizeRuns ==
    /\ pc # "returned"
    /\ pc' \in {"loop", "returned"}
    /\ nOffsets' \in {nOffsets, nOffsets + 1}

SpecLive == Spec /\ WF_<<pc, nOffsets>>(MinimizeRuns)

\* Every step of Next is such a step.
NextIsMinimizeRuns == [][MinimizeRuns /\ <<pc, nOffsets>>' # <<pc, nOffsets>>]_vars

-----------------------------------------------------------------------------
(* FastFinder *)

MaxStars == 3    \* stars in the list given to the constructor
MaxCoord == 2    \* star coordinates are 0..MaxCoord
MaxSlices == 2   \* NXslice is 1..MaxSlices
MaxDist == 2     \* MaxDist is 0..MaxDist

\* A star is named by its place in the list; starList[s] = <<x, y>>.
StarX(list, s) == list[s][1]
StarY(list, s) == list[s][2]

Min2(a, b) == IF a < b THEN a ELSE b
Max2(a, b) == IF a > b THEN a ELSE b

\* int(num/den) for den > 0: the conversion truncates towards zero.
Trunc(num, den) == IF num >= 0 THEN num \div den ELSE -((-num) \div den)

\* The orders sort(first, last, by key <) can leave the elements S in:
\* ascending key, equal keys in any order.
RECURSIVE AscendingOrders(_, _)
AscendingOrders(S, key) ==
    IF S = {} THEN {<<>>}
    ELSE UNION {{<<x>> \o rest : rest \in AscendingOrders(S \ {x}, key)} :
                    x \in {y \in S : \A z \in S : key[y] <= key[z]}}

RECURSIVE AdvanceIstarPastEqual(_, _, _, _, _)
AdvanceIstarPastEqual(list, xs, istar, islice, nslice) ==
    LET xmin == StarX(list, xs[1])
        xmax == StarX(list, xs[Len(xs)])
    IN  IF /\ istar < Len(xs)
           /\ (StarX(list, xs[istar + 1]) - xmin) * nslice <= islice * (xmax - xmin)
        THEN AdvanceIstarPastEqual(list, xs, istar + 1, islice, nslice)
        ELSE istar

\* while (istar < count && stars[istar]->x < xend) ++istar;
\* with xend = xmin + islice*xstep and xstep = (xmax-xmin)/nslice.
RECURSIVE AdvanceIstar(_, _, _, _, _)
AdvanceIstar(list, xs, istar, islice, nslice) ==
    LET xmin == StarX(list, xs[1])
        xmax == StarX(list, xs[Len(xs)])
    IN  IF /\ istar < Len(xs)
           /\ (StarX(list, xs[istar + 1]) - xmin) * nslice < islice * (xmax - xmin)
        THEN AdvanceIstar(list, xs, istar + 1, islice, nslice)
        ELSE istar

\* istar after the pass for slice islice of the loop that fills index.
RECURSIVE IstarAfter(_, _, _, _)
IstarAfter(list, xs, islice, nslice) ==
    IF islice = 0 THEN 0
    ELSE AdvanceIstar(list, xs, IstarAfter(list, xs, islice - 1, nslice), islice, nslice)

\* index: nx+1 entries, zero until written; index[0] = 0, index[islice] for
\* 0 < islice < nslice, index[nslice] = count.
FillIndex(list, xs, nslice, nx) ==
    [i \in 0..nx |->
        IF i = nslice THEN Len(xs)
        ELSE IF i < nslice THEN IstarAfter(list, xs, i, nslice)
        ELSE 0]

\* The arrays the per-slice sort in y can leave, from slice islice on.
RECURSIVE SlicesSorted(_, _, _, _, _)
SlicesSorted(list, xs, index, islice, nslice) ==
    IF islice = nslice THEN {<<>>}
    ELSE LET inSlice == {xs[k + 1] : k \in index[islice]..(index[islice + 1] - 1)}
             key == [s \in inSlice |-> StarY(list, s)]
         IN  {a \o b : a \in AscendingOrders(inSlice, key),
                       b \in SlicesSorted(list, xs, index, islice + 1, nslice)}

\* FastFinder::FastFinder(List, NXslice): the objects it can build. With an
\* empty list it returns at once: nslice stays NXslice, index stays zero and
\* xmin, xmax, xstep are never written (here "unset").
FastFinder(list, nx) ==
    IF Len(list) = 0
    THEN {[baselist |-> list, count |-> 0, stars |-> <<>>, nslice |-> nx,
           index |-> [i \in 0..nx |-> 0], xmin |-> "unset", xmax |-> "unset"]}
    ELSE LET ids == 1..Len(list)
             byX == AscendingOrders(ids, [s \in ids |-> StarX(list, s)])
         IN  UNION {
               LET xmin == StarX(list, xs[1])
                   xmax == StarX(list, xs[Len(xs)])
                   nslice == IF xmin = xmax THEN 1 ELSE Min2(nx, Len(list))
                   index == FillIndex(list, xs, nslice, nx)
               IN  {[baselist |-> list, count |-> Len(list), stars |-> arr,
                     nslice |-> nslice, index |-> index,
                     xmin |-> xmin, xmax |-> xmax] :
                        arr \in SlicesSorted(list, xs, index, 0, nslice)}
               : xs \in byX}

\* stars.begin() + pos; stars.end() is position count.
At(F, pos) == F.stars[pos + 1]
YAt(F, pos) == StarY(F.baselist, At(F, pos))

\* The loop of locate_y_start.
RECURSIVE StartLoop(_, _, _, _)
StartLoop(F, Begin, span, YVal) ==
    IF span > 1
    THEN LET half_span == span \div 2
             middle == Begin + half_span
         IN  IF YAt(F, middle) < YVal
             THEN StartLoop(F, Begin + half_span, span - half_span, YVal)
             ELSE StartLoop(F, Begin, span - (span - half_span), YVal)
    ELSE Begin

locate_y_start(F, Begin, End, YVal) ==
    IF Begin = F.count \/ Begin = End THEN F.count
    ELSE StartLoop(F, Begin, End - Begin - 1, YVal)

\* The loop of locate_y_end.
RECURSIVE EndLoop(_, _, _, _)
EndLoop(F, End, span, YVal) ==
    IF span > 1
    THEN LET half_span == span \div 2
             middle == End - half_span
         IN  IF YAt(F, middle) > YVal
             THEN EndLoop(F, End - half_span, span - half_span, YVal)
             ELSE EndLoop(F, End, span - (span - half_span), YVal)
    ELSE End - 1

locate_y_end(F, Begin, End, YVal) ==
    IF Begin = F.count THEN F.count
    ELSE EndLoop(F, End, End - Begin - 1, YVal)

find_range_in_slice(F, iSlice, YStart, YEnd) ==
    LET Start == locate_y_start(F, F.index[iSlice], F.index[iSlice + 1], YStart)
    IN  [Start |-> Start,
         End |-> locate_y_end(F, Start, F.index[iSlice + 1], YEnd)]

\* startSlice and endSlice of Iterator::Iterator; xstep != 0 when
\* xmax != xmin.
StartSliceOf(F, px, d) ==
    IF F.xmax # F.xmin
    THEN Max2(0, Trunc((px - d - F.xmin) * F.nslice, F.xmax - F.xmin))
    ELSE 0

EndSliceNoPlusOne(F, px, d) ==
    IF F.xmax # F.xmin
    THEN Min2(F.nslice, Trunc((px + d - F.xmin) * F.nslice, F.xmax - F.xmin))
    ELSE 1

EndSliceOf(F, px, d) ==
    IF F.xmax # F.xmin
    THEN Min2(F.nslice, Trunc((px + d - F.xmin) * F.nslice, F.xmax - F.xmin) + 1)
    ELSE 1

\* The do-while of Iterator::operator++ : step to the next slice with a
\* range, or to null_value (position count).
RECURSIVE NextSlice(_, _)
NextSlice(F, it) ==
    LET cs == it.currentSlice + 1 IN
    IF cs >= it.endSlice
    THEN [it EXCEPT !.currentSlice = cs, !.current = F.count]
    ELSE LET r == find_range_in_slice(F, cs, it.yStart, it.yEnd)
             at == [it EXCEPT !.currentSlice = cs, !.current = r.Start, !.pend = r.End]
         IN  IF r.Start = F.count THEN NextSlice(F, at) ELSE at

\* Iterator::operator++
Increment(F, it) ==
    IF it.current # it.pend
    THEN [it EXCEPT !.current = @ + 1]
    ELSE NextSlice(F, it)

\* begin_scan(Where, MaxDist) on a FastFinder built from a non-empty list.
begin_scan(F, Where, d) ==
    LET startSlice == StartSliceOf(F, Where[1], d)
        endSlice == EndSliceOf(F, Where[1], d)
        it == [current |-> F.count, pend |-> F.count, currentSlice |-> 0,
               endSlice |-> endSlice, yStart |-> 0, yEnd |-> 0]
    IN  IF startSlice >= F.nslice \/ endSlice < 0 THEN it
        ELSE Increment(F, [it EXCEPT !.yStart = Where[2] - d,
                                     !.yEnd = Where[2] + d,
                                     !.currentSlice = startSlice - 1])

\* Where.Dist2(star)
Dist2(list, Where, s) ==
    (StarX(list, s) - Where[1]) * (StarX(list, s) - Where[1])
    + (StarY(list, s) - Where[2]) * (StarY(list, s) - Where[2])

\* The for loop of FindClosest; star 0 is the null pointer.
RECURSIVE ClosestLoop(_, _, _, _, _)
ClosestLoop(F, q, it, pbest, minDist2) ==
    IF it.current = F.count THEN pbest
    ELSE LET s == At(F, it.current)
             dist2 == Dist2(F.baselist, q.Where, s)
         IN  IF s \in q.SkipIt
             THEN ClosestLoop(F, q, Increment(F, it), pbest, minDist2)
             ELSE IF dist2 < minDist2
                  THEN ClosestLoop(F, q, Increment(F, it), s, dist2)
                  ELSE ClosestLoop(F, q, Increment(F, it), pbest, minDist2)

\* FindClosest(Where, MaxDist, SkipIt); q.SkipIt is the set of stars the
\* predicate rejects (empty for a null SkipIt).
FindClosest(F, q) ==
    IF F.count = 0 THEN 0
    ELSE LET it == begin_scan(F, q.Where, q.MaxDist) IN
         IF it.current = F.count THEN 0
         ELSE ClosestLoop(F, q, it, 0, q.MaxDist * q.MaxDist)

RECURSIVE SecondLoopFirstOnly(_, _, _, _, _)
SecondLoopFirstOnly(F, q, it, best, minDist) ==
    IF it.current = F.count THEN best
    ELSE LET s == At(F, it.current)
             dist2 == Dist2(F.baselist, q.Where, s)
         IN  IF s \in q.SkipIt
             THEN SecondLoopFirstOnly(F, q, Increment(F, it), best, minDist)
             ELSE IF dist2 < minDist[1]
                  THEN SecondLoopFirstOnly(F, q, Increment(F, it),
                                           <<s, best[1]>>, <<dist2, minDist[1]>>)
                  ELSE SecondLoopFirstOnly(F, q, Increment(F, it), best, minDist)

\* The for loop of SecondClosest; best = <<pbest1, pbest2>>,
\* minDist = <<minDist1_2, minDist2_2>>.
RECURSIVE SecondLoop(_, _, _, _, _)
SecondLoop(F, q, it, best, minDist) ==
    IF it.current = F.count THEN best
    ELSE LET s == At(F, it.current)
             dist2 == Dist2(F.baselist, q.Where, s)
         IN  IF s \in q.SkipIt
             THEN SecondLoop(F, q, Increment(F, it), best, minDist)
             ELSE IF dist2 < minDist[1]
                  THEN SecondLoop(F, q, Increment(F, it),
                                  <<s, best[1]>>, <<dist2, minDist[1]>>)
                  ELSE IF dist2 < minDist[2]
                       THEN SecondLoop(F, q, Increment(F, it),
                                       <<best[1], s>>, <<minDist[1], dist2>>)
                       ELSE SecondLoop(F, q, Increment(F, it), best, minDist)

\* SecondClosest(Where, MaxDist, Closest, SkipIt): <<Closest, the star
\* returned>>, 0 being the null pointer.
SecondClosest(F, q) ==
    IF F.count = 0 THEN <<0, 0>>
    ELSE LET it == begin_scan(F, q.Where, q.MaxDist) IN
         IF it.current = F.count THEN <<0, 0>>
         ELSE SecondLoop(F, q, it, <<0, 0>>,
                         <<q.MaxDist * q.MaxDist, q.MaxDist * q.MaxDist>>)

\* for (it = begin_scan(Where, MaxDist); *it != nullptr; ++it): the stars
\* the iteration goes through, in order.
RECURSIVE ScanLoop(_, _, _)
ScanLoop(F, it, acc) ==
    IF it.current = F.count THEN acc
    ELSE ScanLoop(F, Increment(F, it), Append(acc, At(F, it.current)))

\* The star lists: up to MaxStars stars on the grid. The list's own order
\* only feeds the sorts, which leave ties in any order, so the lists are
\* taken in one order each.
Points == (0..MaxCoord) \X (0..MaxCoord)
PointRank(pt) == pt[1] * (MaxCoord + 1) + pt[2]
StarLists ==
    UNION {{l \in [1..n -> Points] :
               \A i \in 1..(n - 1) : PointRank(l[i]) <= PointRank(l[i + 1])} :
           n \in 0..MaxStars}

Queries(list) ==
    [Where : ((-1)..(MaxCoord + 1)) \X ((-1)..(MaxCoord + 1)),
     MaxDist : 0..MaxDist,
     SkipIt : SUBSET (1..Len(list))]

FitIdle ==
    /\ valid = [m \in MS |-> TRUE]
    /\ refStar = [f \in FS |-> TRUE]
    /\ measurementCount = [f \in FS |-> Cardinality(ValidChildren(valid, f))]
    /\ measIndices = [m \in MS |-> {}]
    /\ chi2 = NoChi2
    /\ pc = "none"
    /\ nSigmaCut = 0 /\ doRankUpdate = FALSE
    /\ returnCode = "Converged"
    /\ oldChi2 = 0 /\ curChi2 = 0
    /\ totalMeasOutliers = 0 /\ totalRefOutliers = 0
    /\ msOutliers = <<>> /\ fsOutliers = <<>>
    /\ affectedParams = [i \in Params |-> 0]
    /\ scanned = {}
    /\ nOffsets = 0
    /\ factorFailed = FALSE /\ downdateFailed = FALSE

InitFF ==
    /\ FitIdle
    /\ ffpc = "new"
    /\ starList \in StarLists
    /\ NXslice \in 1..MaxSlices
    /\ ff = <<>> /\ query = <<>> /\ found = 0
    /\ closest = 0 /\ yielded = <<>>
    /\ SaveIdle

Construct ==
    /\ ffpc = "new"
    /\ ff' \in FastFinder(starList, NXslice)
    /\ ffpc' = "built"
    /\ UNCHANGED <<starList, NXslice, query, found, closest, yielded>>

CallFindClosest ==
    /\ ffpc = "built"
    /\ \E q \in Queries(starList) :
          /\ query' = q
          /\ found' = FindClosest(ff, q)
    /\ ffpc' = "queried"
    /\ UNCHANGED <<starList, NXslice, ff, closest, yielded>>

CallSecondClosest ==
    /\ ffpc = "built"
    /\ \E q \in Queries(starList) : \E both \in {SecondClosest(ff, q)} :
          /\ query' = q
          /\ closest' = both[1]
          /\ found' = both[2]
    /\ ffpc' = "queried2"
    /\ UNCHANGED <<starList, NXslice, ff, yielded>>

\* An iteration of begin_scan to its end. The list is not empty: the
\* constructor writes xmin and xstep, which the iterator reads, only then.
CallBeginScan ==
    /\ ffpc = "built"
    /\ ff.count # 0
    /\ \E q \in Queries(starList) :
          /\ q.SkipIt = {}
          /\ query' = q
          /\ yielded' = ScanLoop(ff, begin_scan(ff, q.Where, q.MaxDist), <<>>)
    /\ ffpc' = "scanned"
    /\ UNCHANGED <<starList, NXslice, ff, found, closest>>

NextFF ==
    \/ Construct /\ UNCHANGED <<fitVars, saveVars>>
    \/ CallFindClosest /\ UNCHANGED <<fitVars, saveVars>>
    \/ CallSecondClosest /\ UNCHANGED <<fitVars, saveVars>>
    \/ CallBeginScan /\ UNCHANGED <<fitVars, saveVars>>

SpecFF == InitFF /\ [][NextFF]_vars

-----------------------------------------------------------------------------
(* FitterBase::saveChi2Contributions *)

MaxNameLen == 4  \* characters in baseName

\* A std::string is the sequence of its characters; npos is -1 and the
\* positions count from 0.
Chars == {"a", ".", "/"}
npos == -1

findFirst(str, ch) ==
    IF \E k \in 1..Len(str) : str[k] = ch
    THEN (CHOOSE k \in 1..Len(str) : str[k] = ch /\ \A j \in 1..(k - 1) : str[j] # ch) - 1
    ELSE npos

\* str.rfind(ch)
rfind(str, ch) ==
    IF \E k \in 1..Len(str) : str[k] = ch
    THEN (CHOOSE k \in 1..Len(str) : str[k] = ch /\ \A j \in (k + 1)..Len(str) : str[j] # ch) - 1
    ELSE npos

\* str.insert(pos, what)
insert(str, pos, what) ==
    SubSeq(str, 1, pos) \o what \o SubSeq(str, pos + 1, Len(str))

\* Where saveChi2Contributions inserts: before the last dot, or at the end
\* when there is no dot or the last dot comes before the last slash.
InsertionPoint(name) ==
    LET dot == rfind(name, ".")
        slash == rfind(name, "/")
    IN  IF dot = npos \/ (slash # npos /\ dot < slash) THEN Len(name) ELSE dot

BaseNames == UNION {[1..n -> Chars] : n \in 0..MaxNameLen}

InitSave ==
    /\ FitIdle
    /\ FFIdle
    /\ savepc = "call"
    /\ baseName \in BaseNames
    /\ measTuple = <<>> /\ refTuple = <<>>

\* saveChi2Contributions(baseName): the names given to
\* saveChi2MeasContributions and saveChi2RefContributions.
saveChi2Contributions ==
    /\ savepc = "call"
    /\ measTuple' = insert(baseName, InsertionPoint(baseName), <<"-", "m", "e", "a", "s">>)
    /\ refTuple' = insert(baseName, InsertionPoint(baseName), <<"-", "r", "e", "f">>)
    /\ savepc' = "saved"
    /\ UNCHANGED baseName

NextSave == saveChi2Contributions /\ UNCHANGED <<fitVars, ffVars>>

SpecSave == InitSave /\ [][NextSave]_vars

-----------------------------------------------------------------------------
(* Vocabulary of the claims *)

\* A step of the loop that ran findOutliers, and one that went on to remove
\* what it found.
FindRan == pc = "loop" /\ nSigmaCut # 0 /\ returnCode' # "Chi2Increased"
Removing == pc = "loop" /\ (pc' = "loop" \/ returnCode' = "Failed")

\* The entries recorded by the last findOutliers call.
Recorded(ms, fs) == {Meas(ms[i]) : i \in DOMAIN ms} \cup {Ref(fs[i]) : i \in DOMAIN fs}

NoDuplicates(s) == \A i, j \in DOMAIN s : i # j => s[i] # s[j]

\* chi2 > cut, decided like chi2 < cut.
AboveCut(x, st, ns) ==
    LET D == st.n * x - st.sum
        lhs == D * D * st.varDen
        rhs == ns * ns * st.n * st.n * st.varNum
    IN  IF st.varDen = 0 THEN FALSE
        ELSE IF ns >= 0 THEN D > 0 /\ lhs > rhs
        ELSE D > 0 \/ lhs < rhs

\* A FittedStar some term still constrains.
Constrained(v, r, f) == ValidChildren(v, f) # {} \/ r[f]

-----------------------------------------------------------------------------
\* C1: measurementCount equals the number of valid children of every
\* FittedStar in every state of a minimize call (before it, after every
\* rejection pass, on return); a pass that removes invalidates exactly the
\* stars of msOutliers, each listed once and valid before, and lowers each
\* FittedStar's count by the number of its stars in the list; no other step
\* touches a validity flag or a count.
CountsMatch ==
    \A f \in FS : measurementCount[f] = Cardinality(ValidChildren(valid, f))

RemovedOnce ==
    IF Removing
    THEN /\ NoDuplicates(msOutliers')
         /\ \A m \in Range(msOutliers') : valid[m]
         /\ \A m \in MS : valid'[m] = (valid[m] /\ m \notin Range(msOutliers'))
         /\ \A f \in FS : measurementCount'[f] = measurementCount[f]
                - Cardinality({m \in Range(msOutliers') : FittedStarOf(m) = f})
    ELSE UNCHANGED <<valid, measurementCount>>

C1_CountsConsistent == []CountsMatch /\ [][RemovedOnce]_vars

C1_Witness ==
    /\ pc = "returned" /\ nOffsets >= 3
    /\ totalMeasOutliers = 2
    /\ \E f \in FS : measurementCount[f] = 0

\* C2: the parameter-index sets of the entries recorded by one findOutliers
\* call are pairwise disjoint, and no parameter index is touched by two of
\* them.
C2_DisjointOutliers ==
    LET rec == Recorded(msOutliers, fsOutliers) IN
    /\ NoDuplicates(msOutliers) /\ NoDuplicates(fsOutliers)
    /\ \A x, y \in rec :
          x # y => IndicesOf(x, measIndices) \cap IndicesOf(y, measIndices) = {}
    /\ \A i \in Params :
          Cardinality({x \in rec : i \in IndicesOf(x, measIndices)}) <= 1

\* Two outliers recorded on different parameters while a third entry the
\* scan looked at was held back because it shares a parameter with one.
C2_Witness ==
    LET rec == Recorded(msOutliers, fsOutliers) IN
    /\ \E x, y \in rec : /\ x # y
                         /\ IndicesOf(x, measIndices) # {}
                         /\ IndicesOf(y, measIndices) # {}
    /\ \E z \in scanned \ rec : \E x \in rec :
          IndicesOf(z, measIndices) \cap IndicesOf(x, measIndices) # {}

\* C3: a FittedStar that a valid MeasuredStar or a RefStar constrains is
\* still constrained after every step of minimize. Stated for the passes
\* in which every recorded outlier is strictly above the cut.
C3_NeverOrphans ==
    [][(FindRan /\ \A x \in Recorded(msOutliers', fsOutliers') :
                      AboveCut(chi2'[x], computeAverageAndSigma(Active, chi2'), nSigmaCut))
        => \A f \in FS : Constrained(valid, refStar, f)
                            => Constrained(valid', refStar', f)]_vars

\* Removing the term x would leave its FittedStar unconstrained: x is the
\* only measurement of a star without RefStar, or the reference term of a
\* star without measurement.
Protected(x) ==
    IF x[1] = "m"
    THEN measurementCount[FittedStarOf(x[2])] = 1 /\ ~refStar[FittedStarOf(x[2])]
    ELSE measurementCount[x[2]] = 0

\* C4: findOutliers records no measurement term whose FittedStar has, at the
\* call, measurementCount 1 and no RefStar, and no reference term whose
\* FittedStar has measurementCount 0; affectedParams counts the recorded
\* entries only; and when every entry at or above the cut is such a
\* protected one, the pass ends the call with Converged and changes no
\* validity flag, count or RefStar link.
C4_Step ==
    FindRan =>
        /\ \A x \in Recorded(msOutliers', fsOutliers') :
              ~Protected(x)
        /\ \A i \in Params : affectedParams'[i] =
              Cardinality({x \in Recorded(msOutliers', fsOutliers') :
                              i \in IndicesOf(x, measIndices)})
        /\ (\A x \in scanned' : Protected(x))
              => /\ pc' = "returned" /\ returnCode' = "Converged"
                 /\ UNCHANGED <<valid, measurementCount, refStar>>

C4_OrphaningOutlierSkipped == [][C4_Step]_vars

\* A measurement that is alone above the cut (nSigmaCut = 1, two more
\* entries in the list), protected, still valid after minimize returned.
C4_Witness ==
    /\ pc = "returned" /\ returnCode = "Converged" /\ nSigmaCut = 1
    /\ Cardinality(Active) = 3
    /\ \E m \in MS :
          /\ scanned = {Meas(m)}
          /\ AboveCut(chi2[Meas(m)], computeAverageAndSigma(Active, chi2), nSigmaCut)
          /\ valid[m] /\ measurementCount[FittedStarOf(m)] = 1
          /\ ~refStar[FittedStarOf(m)]
          /\ msOutliers = <<>> /\ fsOutliers = <<>>

\* C5: every entry findOutliers records has chi2 strictly greater than the
\* cut of the list it was called on.
C5_StrictlyAboveCut ==
    [][FindRan => \A x \in Recorded(msOutliers', fsOutliers') :
                      AboveCut(chi2'[x], computeAverageAndSigma(Active, chi2'), nSigmaCut)]_vars

\* C6: a step of the loop sets Chi2Increased exactly when the chi2 after
\* offsetParams exceeds oldChi2 and the totals of removed outliers are not
\* both 0; the totals count the stars invalidated and the links detached by
\* the earlier passes of this call (0 when the loop is entered), so the
\* first pass never sets it; no other step sets it.
C6_Step ==
    /\ pc = "loop" =>
          /\ (returnCode' = "Chi2Increased")
                <=> (curChi2' > oldChi2 /\ totalMeasOutliers + totalRefOutliers > 0)
          /\ nOffsets = 0 => returnCode' # "Chi2Increased"
          /\ totalMeasOutliers' - totalMeasOutliers
                = Cardinality({m \in MS : valid[m] /\ ~valid'[m]})
          /\ totalRefOutliers' - totalRefOutliers
                = Cardinality({f \in FS : refStar[f] /\ ~refStar'[f]})
    /\ pc = "idle" =>
          /\ returnCode' # "Chi2Increased"
          /\ pc' = "loop" => totalMeasOutliers' = 0 /\ totalRefOutliers' = 0

C6_Chi2IncreasedExactly == [][C6_Step]_vars

C6_Witness ==
    /\ pc = "returned" /\ returnCode = "Chi2Increased"
    /\ curChi2 > oldChi2 /\ totalRefOutliers = 1 /\ totalMeasOutliers = 0

\* C7: once a factorisation has failed minimize has returned Failed and
\* offsetParams is not called again; a failure of the first factorisation
\* leaves nOffsets at 0 and every validity flag, count and RefStar link as
\* it was.
C7_Step ==
    /\ factorFailed' => pc' = "returned" /\ returnCode' = "Failed"
    /\ factorFailed => nOffsets' = nOffsets
    /\ (pc = "idle" /\ factorFailed')
          => nOffsets' = 0 /\ UNCHANGED <<valid, measurementCount, refStar>>

C7_FactorFailureReturnsFailed == [][C7_Step]_vars

C7_Witness ==
    /\ factorFailed /\ returnCode = "Failed" /\ nOffsets = 2
    /\ totalMeasOutliers + totalRefOutliers >= 2

\* C8: after a Cholesky downdate that reported failure minimize has
\* returned Failed (and so solves and offsets no more).
C8_DowndateFailureReturnsFailed ==
    downdateFailed => pc = "returned" /\ returnCode = "Failed"

\* C9 as claimed: with nSigmaCut <= 0 a pass of the loop changes no validity
\* flag, count or RefStar link and ends the call with Converged.
C9_NonPositiveCutNoRejection ==
    [][(pc = "loop" /\ nSigmaCut <= 0)
        => /\ UNCHANGED <<valid, measurementCount, refStar>>
           /\ pc' = "returned" /\ returnCode' = "Converged"]_vars

\* C9 amended: with nSigmaCut = 0 the first pass of the loop is the last:
\* after one solve/offsetParams it ends the call with Converged, whatever
\* the chi2 did, and changes no validity flag, count or RefStar link.
C9_ZeroCutNoRejection ==
    [][(pc = "loop" /\ nSigmaCut = 0)
        => /\ UNCHANGED <<valid, measurementCount, refStar>>
           /\ nOffsets = 0 /\ nOffsets' = 1
           /\ pc' = "returned" /\ returnCode' = "Converged"]_vars

C9_Witness ==
    /\ pc = "returned" /\ nSigmaCut = 0 /\ returnCode = "Converged"
    /\ nOffsets = 1 /\ curChi2 = oldChi2 /\ Cardinality(Active) = 4

-----------------------------------------------------------------------------
(* FindClosest *)

\* The stars of the list that the predicate lets through and that lie
\* nearer to Where than MaxDist, or exactly at MaxDist.
Inside(q) ==
    {s \in 1..Len(starList) :
        s \notin q.SkipIt /\ Dist2(starList, q.Where, s) < q.MaxDist * q.MaxDist}
AtOrInside(q) ==
    {s \in 1..Len(starList) :
        s \notin q.SkipIt /\ Dist2(starList, q.Where, s) <= q.MaxDist * q.MaxDist}

\* What a FindClosest over the set near returns: a nearest star of it, none
\* when it is empty.
ClosestOf(near, q) ==
    IF near = {} THEN found = 0
    ELSE /\ found \in near
         /\ \A s \in near : Dist2(starList, q.Where, found) <= Dist2(starList, q.Where, s)

\* C10 as claimed: FindClosest returns a nearest star among the non-skipped
\* stars at distance <= MaxDist, and none only when there is no such star.
C10_ClosestWithinOrAt == ffpc = "queried" => ClosestOf(AtOrInside(query), query)

\* C10 amended: FindClosest returns a nearest star among the non-skipped
\* stars at distance < MaxDist (so never one farther than MaxDist), and
\* none exactly when there is no such star.
C10_ClosestStrictlyWithin == ffpc = "queried" => ClosestOf(Inside(query), query)

\* A star found in the second of two slices while a nearer star is skipped
\* and another non-skipped star lies farther away inside MaxDist.
C10_Witness ==
    /\ ffpc = "queried" /\ found # 0 /\ ff.nslice = 2
    /\ \E s \in query.SkipIt :
          Dist2(starList, query.Where, s) < Dist2(starList, query.Where, found)
    /\ \E s \in Inside(query) :
          Dist2(starList, query.Where, s) > Dist2(starList, query.Where, found)
    /\ \E k \in ff.index[1]..(ff.count - 1) : At(ff, k) = found

-----------------------------------------------------------------------------
\* The stars of the list inside the square of half-side MaxDist around
\* Where, both bounds included.
InBox(q) ==
    {s \in 1..Len(starList) :
        /\ q.Where[1] - q.MaxDist <= StarX(starList, s)
        /\ StarX(starList, s) <= q.Where[1] + q.MaxDist
        /\ q.Where[2] - q.MaxDist <= StarY(starList, s)
        /\ StarY(starList, s) <= q.Where[2] + q.MaxDist}

\* C11: an iteration of begin_scan(Where, MaxDist) to its end goes through
\* every star of the list with Where.x - MaxDist <= x <= Where.x + MaxDist
\* and Where.y - MaxDist <= y <= Where.y + MaxDist, for every slice count
\* and every Where.
C11_ScanYieldsAllInBox ==
    ffpc = "scanned" => InBox(query) \subseteq Range(yielded)

-----------------------------------------------------------------------------
\* A FastFinder was constructed from a list that is not empty.
Built == ffpc # "none" /\ ffpc # "new" /\ ff.count # 0

\* The stars stored at positions index[i]..index[i+1]-1.
InSlice(i) == {At(ff, k) : k \in ff.index[i]..(ff.index[i + 1] - 1)}

\* x_min + i*xstep <= x, and x < x_min + i*xstep, with
\* xstep = (x_max - x_min)/nslice.
FromBound(s, i) ==
    (StarX(starList, s) - ff.xmin) * ff.nslice >= i * (ff.xmax - ff.xmin)
BelowBound(s, i) ==
    (StarX(starList, s) - ff.xmin) * ff.nslice < i * (ff.xmax - ff.xmin)

\* nslice, the ends of index, its order, and ascending y inside a slice.
IndexShape ==
    /\ ff.count = Len(starList)
    /\ ff.nslice = (IF ff.xmin = ff.xmax THEN 1 ELSE Min2(NXslice, ff.count))
    /\ \A s \in 1..ff.count : ff.xmin <= StarX(starList, s) /\ StarX(starList, s) <= ff.xmax
    /\ \E s \in 1..ff.count : StarX(starList, s) = ff.xmin
    /\ \E s \in 1..ff.count : StarX(starList, s) = ff.xmax
    /\ ff.index[0] = 0 /\ ff.index[ff.nslice] = ff.count
    /\ \A i \in 0..(ff.nslice - 1) : ff.index[i] <= ff.index[i + 1]
    /\ Range(ff.stars) = 1..ff.count
    /\ \A i \in 0..(ff.nslice - 1) :
          \A k \in ff.index[i]..(ff.index[i + 1] - 2) : YAt(ff, k) <= YAt(ff, k + 1)

\* C12 as stated: after construction from a list that is not empty, nslice
\* is min(NXslice, N) (1 when all x are equal), index[0] = 0,
\* index[nslice] = N, index does not decrease, every slice i holds exactly
\* the stars with x in [x_min + i*xstep, x_min + (i+1)*xstep), and each
\* slice is in ascending y.
C12_SlicesHalfOpen ==
    Built =>
        /\ IndexShape
        /\ \A i \in 0..(ff.nslice - 1) :
              InSlice(i) = {s \in 1..ff.count : FromBound(s, i) /\ BelowBound(s, i + 1)}

\* C12, amended: the same, the last slice being closed at x_max: slice
\* i < nslice-1 holds exactly the stars with x in
\* [x_min + i*xstep, x_min + (i+1)*xstep), and slice nslice-1 those with x in
\* [x_min + (nslice-1)*xstep, x_max].
C12_SlicesHalfOpenButLast ==
    Built =>
        /\ IndexShape
        /\ \A i \in 0..(ff.nslice - 1) :
              InSlice(i) = {s \in 1..ff.count :
                              /\ FromBound(s, i)
                              /\ i < ff.nslice - 1 => BelowBound(s, i + 1)}

\* Two slices, a star exactly on the boundary between them and stars on
\* both sides of it.
C12_Witness ==
    /\ Built /\ ffpc = "built" /\ ff.nslice = 2 /\ ff.count = 3
    /\ \E s \in InSlice(1) : 2 * (StarX(starList, s) - ff.xmin) = ff.xmax - ff.xmin
    /\ InSlice(0) # {}

-----------------------------------------------------------------------------
\* C13: SecondClosest sets Closest to the star FindClosest returns for the
\* same query (a nearest non-skipped star at distance < MaxDist, or none);
\* the star it returns is none exactly when fewer than two non-skipped
\* stars are at distance < MaxDist, and otherwise is not Closest, is not
\* skipped, is at distance < MaxDist and no nearer than Closest, and no
\* non-skipped star other than Closest is nearer than it; it is none
\* whenever Closest is none.
C13_SecondClosestIsSecond ==
    ffpc = "queried2" =>
        LET near == Inside(query)
            d(s) == Dist2(starList, query.Where, s)
        IN  /\ closest = FindClosest(ff, query)
            /\ (closest = 0) = (near = {})
            /\ closest # 0 => closest \in near /\ \A s \in near : d(closest) <= d(s)
            /\ (found = 0) = (Cardinality(near) < 2)
            /\ found # 0 =>
                  /\ closest # 0 /\ found # closest /\ found \in near
                  /\ d(found) >= d(closest)
                  /\ \A s \in near \ {closest} : d(found) <= d(s)

\* Three stars in range at three distances; the nearest and the second
\* nearest are the two returned.
C13_Witness ==
    /\ ffpc = "queried2" /\ found # 0 /\ closest # 0
    /\ Cardinality(Inside(query)) = 3
    /\ Dist2(starList, query.Where, closest) < Dist2(starList, query.Where, found)
    /\ \E s \in Inside(query) :
          Dist2(starList, query.Where, found) < Dist2(starList, query.Where, s)

-----------------------------------------------------------------------------
\* The place of an entry in the Chi2List as the accumulators fill it: the
\* measured stars in their order, then the fitted stars.
InsertionIndex(x) == IF x[1] = "m" THEN x[2] ELSE NM + x[2]

\* The list after a stable ascending sort, read from rbegin(): descending
\* chi2, entries of equal chi2 in descending insertion index.
RECURSIVE StableOrder(_, _)
StableOrder(act, c) ==
    IF act = {} THEN <<>>
    ELSE LET x == CHOOSE y \in act : \A z \in act :
                      \/ c[y] > c[z]
                      \/ c[y] = c[z] /\ InsertionIndex(y) >= InsertionIndex(z)
         IN  <<x>> \o StableOrder(act \ {x}, c)

\* C14: a findOutliers call records the outliers, in the order, that the
\* Associations state, nSigmaCut and the traversal order determine: those
\* of the scan of the stably sorted list, where entries of equal chi2 are
\* ordered by insertion index.
C14_Step ==
    FindRan =>
        LET res == findOutliers(StableOrder(Active, chi2'), Env(chi2'))
        IN  msOutliers' = res.ms /\ fsOutliers' = res.fs

C14_OutliersOfStableSort == [][C14_Step]_vars

-----------------------------------------------------------------------------
\* The same inputs put the two paths in front of the same normal matrix of
\* the remaining data: where chol.compute fails on it in the rebuild path,
\* the downdate to it fails in the rank-update path. LostFactor is a pass
\* that removed outliers and met that failure.
LostFactor ==
    /\ pc = "loop"
    /\ \/ ~factorFailed /\ factorFailed'
       \/ ~downdateFailed /\ downdateFailed'

\* C15: the two paths go through the same removals and end with the same
\* tag: a pass that removes outliers and cannot factorise what remains ends
\* the call with Failed whether doRankUpdate is set or not, and no pass
\* follows it.
C15_Step ==
    LostFactor => pc' = "returned" /\ returnCode' = "Failed"

C15_PathsAgree == [][C15_Step]_vars

-----------------------------------------------------------------------------
\* The places of a character in baseName, counted from 1.
PlacesOf(ch) == {k \in 1..Len(baseName) : baseName[k] = ch}
LastPlace(S) == CHOOSE k \in S : \A j \in S : j <= k

\* name is baseName with the characters of what put in before place k
\* (after the last character when k = Len(baseName) + 1).
InsertedBefore(name, what, k) ==
    /\ Len(name) = Len(baseName) + Len(what)
    /\ \A j \in 1..(k - 1) : name[j] = baseName[j]
    /\ \A j \in 1..Len(what) : name[k - 1 + j] = what[j]
    /\ \A j \in k..Len(baseName) : name[j + Len(what)] = baseName[j]

SavedAt(k) ==
    /\ InsertedBefore(measTuple, <<"-", "m", "e", "a", "s">>, k)
    /\ InsertedBefore(refTuple, <<"-", "r", "e", "f">>, k)

\* C16 as stated: the two names are baseName with "-meas" and "-ref" put in
\* just before the last '.' of the whole string, wherever it is, and at the
\* end of the string when it has no '.'.
C16_BeforeFinalDot ==
    savepc = "saved" =>
        IF PlacesOf(".") = {} THEN SavedAt(Len(baseName) + 1)
        ELSE SavedAt(LastPlace(PlacesOf(".")))

\* C16, amended: the two names are baseName with "-meas" and "-ref" put in
\* just before the last '.' when it comes after the last '/' (or there is
\* no '/'), and at the end of the string when there is no '.' or the last
\* '.' comes before the last '/'.
C16_BeforeFinalDotOfFileName ==
    savepc = "saved" =>
        IF \/ PlacesOf(".") = {}
           \/ /\ PlacesOf("/") # {}
              /\ LastPlace(PlacesOf(".")) < LastPlace(PlacesOf("/"))
        THEN SavedAt(Len(baseName) + 1)
        ELSE SavedAt(LastPlace(PlacesOf(".")))

\* A name with a '.' in the directory part and another in the file name:
\* the suffixes went before the second.
C16_Witness ==
    /\ savepc = "saved"
    /\ baseName = <<".", "/", ".", "a">>
    /\ measTuple = <<".", "/", "-", "m", "e", "a", "s", ".", "a">>
    /\ refTuple = <<".", "/", "-", "r", "e", "f", ".", "a">>

-----------------------------------------------------------------------------
\* The contributions the accumulators report: the valid measured stars and
\* the fitted stars with a RefStar.
ActiveCount == Cardinality(ActiveContribs(valid, refStar))

\* A pass either leaves the loop or removes an active contribution; what
\* was removed stays removed; the totals count what was removed, so that
\* ActiveCount + totals is the number of contributions at the call.
PassProgress ==
    /\ pc = "loop" /\ pc' = "loop" => ActiveCount' < ActiveCount
    /\ \A m \in MS : valid'[m] => valid[m]
    /\ \A f \in FS : refStar'[f] => refStar[f]
    /\ ActiveCount' + totalMeasOutliers' + totalRefOutliers'
          = ActiveCount + totalMeasOutliers + totalRefOutliers

\* The passes made so far: one more than the contributions removed at most.
PassesBounded == nOffsets <= totalMeasOutliers + totalRefOutliers + 1

\* C17: every minimize call returns; each pass of its loop leaves the loop
\* or removes at least one active contribution, a removed contribution
\* never becomes active again, and the loop makes at most (valid measured
\* stars + RefStar links at the call + 1) passes.
C17_MinimizeTerminates ==
    /\ <>(pc = "returned")
    /\ [][PassProgress]_vars
    /\ []PassesBounded

\* A call that returned after three passes, the first two removing.
C17_Witness ==
    /\ pc = "returned" /\ nOffsets = 3
    /\ totalMeasOutliers + totalRefOutliers >= 2
    /\ ActiveCount <= NM + NF - 2


=============================================================================
